---- MODULE Spec2Model ----
(***************************************************************************)
(* A model of the logging facade of okikio/logger (src/_repl.ts): the      *)
(* Logger class with its registry of named backends, its selected-logger   *)
(* name, its persistent template and context, the level methods, the lazy  *)
(* record builders and the template renderer.                              *)
(*                                                                         *)
(* JavaScript values are tagged records, [kind |-> ...], so that values of *)
(* different types can be told apart: undefined, null, strings, plain      *)
(* mappings, functions, tagged-template arguments and arrays.  A plain     *)
(* mapping is a TLA+ function from a set of keys to values.  The optional  *)
(* bypassSinks argument is passed through untouched by the code and is     *)
(* left out.                                                               *)
(***************************************************************************)
EXTENDS Integers, Sequences, FiniteSets, TLC

VARIABLES
    loggers,        \* #loggers: registered name -> backend
    currentLogger,  \* #currentLogger: the selected-logger name
    message,        \* #message: the persistent template
    context,        \* #context: the persistent context
    out,            \* the calls the last operation made on backends, in order
    thrown,         \* what the last operation threw (NoError when it returned)
    returned,       \* what the last operation returned (Nothing when it threw)
    last,           \* the last operation and its arguments
    record,         \* the record last built by #logLazily or #logTemplate
    closure,        \* what that record's getters close over
    calls,          \* how often the caller's producers ran for that record
    reads,          \* how often the backend read that record's fields
    got,            \* the value the backend's latest read returned
    rmTemplate,     \* renderMessage: the template argument
    rmValues,       \* renderMessage: the values argument
    rmResult,       \* renderMessage: the returned array
    pmTemplate,     \* parseMessageTemplate: the template, a string of characters
    pmProperties,   \* parseMessageTemplate: the properties argument
    pmResult,       \* parseMessageTemplate: the returned array
    callerContext,  \* the caller's options.context object, as the caller reads it
    other           \* a second facade built from the same options, if any

facadeVars == <<loggers, currentLogger, message, context>>
callVars == <<out, thrown, returned, last>>
lazyVars == <<record, closure, calls, reads, got>>
renderVars == <<rmTemplate, rmValues, rmResult>>
parseVars == <<pmTemplate, pmProperties, pmResult>>
shareVars == <<callerContext, other>>
vars == <<facadeVars, callVars, lazyVars, renderVars, parseVars, shareVars>>

-----------------------------------------------------------------------------
(* JavaScript values *)

Undefined == [kind |-> "undefined"]
Null == [kind |-> "null"]
Str(s) == [kind |-> "string", s |-> s]
Map(m) == [kind |-> "mapping", m |-> m]
Fn(f) == [kind |-> "function", fn |-> f]
Tpl(strings, values) == [kind |-> "template", strings |-> strings, values |-> values]
Cb(c) == [kind |-> "callback", cb |-> c]
Arr(items) == [kind |-> "array", items |-> items]

\* v == null in JavaScript: true of null and of undefined
Nullish(v) == v.kind \in {"undefined", "null"}

\* if (v): undefined, null and the empty string are falsy
Truthy(v) == ~Nullish(v) /\ v # Str("")

EmptyMap == <<>>

-----------------------------------------------------------------------------
(* Bounds *)

\* how often the backend reads one field of one record
MaxReads == 3

\* the longest template and values arrays renderMessage is applied to
MaxLen == 3

\* the longest string parseMessageTemplate is applied to
MaxTemplateLen == 5

-----------------------------------------------------------------------------
(* Input domains *)

Levels == {"error", "warn", "info", "debug", "fatal"}

\* names the loggers option may register
RegistrableNames == {"general", "init", "build"}

\* the loggers options of the constructor (sets of registered names)
LoggersOptions == {{}, {"init", "build"}, {"general", "init", "build"}}

\* keys every JavaScript object inherits from Object.prototype
PrototypeKeys == {"toString"}

\* names a caller may pass as the logger option
SelectableNames == RegistrableNames \cup PrototypeKeys \cup {"missing"}

\* the mappings callers pass as context or per-call properties
MapArgs == { [k \in {"a"} |-> 2], [k \in {"b"} |-> 2] }

\* the functions callers pass as per-call properties
FnArgs == {"constB1", "copyAtoB", "returnsUndefined"}

\* the strings callers pass as message or template
StrArgs == {"", "x"}
TemplateArgs == {"", "t"}

\* the tagged-template call sites: `Hello ${5}` and `A ${1} b ${2} c`
TplArgs == { Tpl(<<"Hello ", "">>, <<"5">>), Tpl(<<"A ", " b ", " c">>, <<"1", "2">>) }

\* the message callbacks
CbArgs == {"tpl", "fresh", "null", "throws"}

-----------------------------------------------------------------------------
(* The registry *)

\* the backend a name of the loggers option maps to
CustomBackend == [n \in RegistrableNames |->
                    CASE n = "general" -> "customGeneral"
                      [] n = "init"    -> "initLogger"
                      [] n = "build"   -> "buildLogger"]

\* the registry the constructor builds from the loggers option
Registry(names) == [n \in names \cup {"general"} |->
                      IF n \in names THEN CustomBackend[n] ELSE "generalLogger"]

\* this.#loggers[name]: an own entry, an inherited property, or undefined
Lookup(reg, name) ==
    IF name \in DOMAIN reg THEN reg[name]
    ELSE IF name \in PrototypeKeys THEN "inherited"
    ELSE "undefined"

\* whether a looked-up value is a backend with log and emit
IsBackend(x) == x \notin {"inherited", "undefined"}

-----------------------------------------------------------------------------
(* Errors *)

NoError == [kind |-> "none"]
NotRegistered(name) == [kind |-> "Error", text |-> "is not registered", name |-> name]
TypeError == [kind |-> "TypeError"]

-----------------------------------------------------------------------------
(* Results of a call *)

\* the facade itself: return this
This == [kind |-> "this"]

\* no value: nothing was called yet, or the call threw
Nothing == [kind |-> "nothing"]

\* what a call whose body ends in `return value` hands back, given what it threw
Returned(value, err) == IF err = NoError THEN value ELSE Nothing

-----------------------------------------------------------------------------
\* as Assign, had the mapping been replaced wholesale
AssignReplaces(target, source) == source

(* Object.assign(target, source) on plain mappings: source wins *)
Assign(target, source) ==
    [k \in DOMAIN target \cup DOMAIN source |->
        IF k \in DOMAIN source THEN source[k] ELSE target[k]]

-----------------------------------------------------------------------------
(* renderMessage (the Template Renderer) *)

\* the loop body, from index i on, with args the array built so far
RECURSIVE renderLoop(_, _, _, _)
renderLoop(template, values, i, args) ==
    IF i >= Len(template) THEN args
    ELSE LET pushed == Append(args, template[i + 1])
         IN renderLoop(template, values, i + 1,
                       IF i < Len(values) THEN Append(pushed, values[i + 1])
                       ELSE pushed)

\* as renderMessage, with the bound of the value test off by one
RECURSIVE renderLoopOffByOne(_, _, _, _)
renderLoopOffByOne(template, values, i, args) ==
    IF i >= Len(template) THEN args
    ELSE LET pushed == Append(args, template[i + 1])
         IN renderLoopOffByOne(template, values, i + 1,
                               IF i + 1 < Len(values) THEN Append(pushed, values[i + 1])
                               ELSE pushed)

renderMessageOffByOne(template, values) == renderLoopOffByOne(template, values, 0, <<>>)

renderMessage(template, values) == renderLoop(template, values, 0, <<>>)

-----------------------------------------------------------------------------
(* Logger.#log *)

\* a properties function of the caller, applied to the context snapshot
ApplyFn(f, snapshot) ==
    CASE f = "constB1" -> Map([k \in {"b"} |-> 1])
      [] f = "copyAtoB" -> IF "a" \in DOMAIN snapshot
                           THEN Map([k \in {"b"} |-> snapshot["a"]])
                           ELSE Map(EmptyMap)
      [] f = "returnsUndefined" -> Undefined

\* structuredClone(this.#context): the copy the call works on
structuredClone(ctx) == [k \in DOMAIN ctx |-> ctx[k]]

\* typeof args[0] === "function" ? args[0]?.(context) : args[0]
PossibleArg(arg0, ctx) ==
    IF arg0.kind = "function" THEN ApplyFn(arg0.fn, ctx) ELSE arg0

\* the per-call context after the merge of lines 101-102
MergedContext(ctx, arg0) ==
    LET possibleArg == PossibleArg(arg0, ctx)
    IN IF Truthy(possibleArg) THEN Assign(ctx, possibleArg.m) ELSE ctx

\* as ContextAfterLog, had the merge gone into this.#context itself
ContextAfterLogNoClone(ctx, merged) == merged

\* what this.#context holds after #log: the merge went into the clone
ContextAfterLog(ctx, merged) == ctx

\* as LogMessage, had the persistent template come first
LogMessageTemplateFirst(_message, persistent) ==
    IF ~Nullish(persistent) THEN persistent ELSE _message

\* let message = _message ?? this.#message ?? _message
LogMessage(_message, persistent) ==
    IF ~Nullish(_message) THEN _message
    ELSE IF ~Nullish(persistent) THEN persistent
    ELSE _message

\* the backend #log dispatches to
LogTarget(reg, current) == Lookup(reg, current)

\* the backend calls #log makes
LogCalls(reg, current, persistent, ctx, level, _message, arg0) ==
    IF _message.kind = "string" /\ IsBackend(LogTarget(reg, current))
    THEN << [backend |-> LogTarget(reg, current), method |-> "log", level |-> level,
             message |-> LogMessage(_message, persistent),
             properties |-> MergedContext(structuredClone(ctx), arg0)] >>
    ELSE << >>

\* what #log throws: calling log on something that is no backend
LogThrows(reg, current, _message) ==
    IF _message.kind = "string" /\ ~IsBackend(LogTarget(reg, current))
    THEN TypeError ELSE NoError

Log(level, _message, arg0) ==
    /\ out' = LogCalls(loggers, currentLogger, message, context, level, _message, arg0)
    /\ thrown' = LogThrows(loggers, currentLogger, _message)
    /\ returned' = Returned(This, LogThrows(loggers, currentLogger, _message))
    /\ context' = ContextAfterLog(context,
                        IF _message.kind = "string"
                        THEN MergedContext(structuredClone(context), arg0)
                        ELSE structuredClone(context))
    /\ last' = [op |-> "level", level |-> level, message |-> _message, arg0 |-> arg0]
    /\ UNCHANGED <<loggers, currentLogger, message, lazyVars, renderVars, parseVars, shareVars>>

-----------------------------------------------------------------------------
(* Logger.constructor *)

\* the options callers construct a facade with; an absent option is Undefined
CtorOptions ==
    [logger : {Undefined} \cup {Str(n) : n \in {"init", "missing"}},
     template : {Undefined, Str("t")},
     context : {Undefined, Map([k \in {"a"} |-> 1])},
     loggers : LoggersOptions]

\* a destructuring default: applies when the option is undefined
Default(v, d) == IF v = Undefined THEN d ELSE v

\* the name the constructor selects: the logger option, unvalidated
CtorLogger(options) == Default(options.logger, Str("general")).s

\* this.#context = context (line 59) keeps the caller's object itself, so
\* what the caller's object holds after #context was assigned into is what
\* #context holds; with no context option #context is a fresh {} of its own
Aliased(passed, ctx) == IF passed.kind = "mapping" THEN Map(ctx) ELSE passed

Constructor(options) ==
    /\ loggers = Registry(options.loggers)
    /\ message = options.template
    /\ context = Default(options.context, Map(EmptyMap)).m
    /\ currentLogger = CtorLogger(options)
    /\ callerContext = options.context

\* no second facade was built
Alone == other = [kind |-> "none"]

\* no call has been made and no record has been built
Idle ==
    /\ out = << >>
    /\ thrown = NoError
    /\ returned = Nothing
    /\ last = [op |-> "new"]
    /\ record = [kind |-> "none"]
    /\ closure = [kind |-> "none"]
    /\ calls = [callback |-> 0, properties |-> 0]
    /\ reads = [message |-> 0, properties |-> 0]
    /\ got = Undefined

\* renderMessage has not been called
NoRender ==
    /\ rmTemplate = << >>
    /\ rmValues = << >>
    /\ rmResult = Undefined

\* parseMessageTemplate has not been called
NoParse ==
    /\ pmTemplate = << >>
    /\ pmProperties = EmptyMap
    /\ pmResult = Undefined

Init ==
    /\ \E options \in CtorOptions : Constructor(options)
    /\ Idle
    /\ NoRender
    /\ NoParse
    /\ Alone

-----------------------------------------------------------------------------
(* The accessors: one getter per name of the loggers option, and general *)

\* as GetterTarget, had every getter been the general one
GetterTargetGeneral(name) == "general"

\* the name a getter selects
GetterTarget(name) == name

\* as GetterReturn, had the getter handed out the backend it selects
GetterReturnBackend(reg, name) == [kind |-> "backend", backend |-> reg[name]]

\* what a getter returns: return this
GetterReturn(reg, name) == This

\* the getter #createLoggerGetter(name) defines, read
Getter(name) ==
    /\ name \in DOMAIN loggers
    /\ loggers[name] = CustomBackend[name]
    /\ currentLogger' = GetterTarget(name)
    /\ out' = << >>
    /\ thrown' = NoError
    /\ returned' = GetterReturn(loggers, name)
    /\ last' = [op |-> "getter", name |-> name]
    /\ UNCHANGED <<loggers, message, context, lazyVars, renderVars, parseVars, shareVars>>

\* get general(), reached when the loggers option has no general entry
General ==
    /\ loggers["general"] = "generalLogger"
    /\ currentLogger' = "general"
    /\ out' = << >>
    /\ thrown' = NoError
    /\ returned' = GetterReturn(loggers, "general")
    /\ last' = [op |-> "general"]
    /\ UNCHANGED <<loggers, message, context, lazyVars, renderVars, parseVars, shareVars>>

\* a property read on the facade for a name that has no getter: no getter was
\* defined for it (lines 63-66 define them for the loggers option only), so
\* the read gives undefined, or the method Object.prototype supplies
AccessResult(name) ==
    IF name \in PrototypeKeys THEN [kind |-> "function", fn |-> name] ELSE Undefined

Access(name) ==
    /\ name \notin DOMAIN loggers
    /\ out' = << >>
    /\ thrown' = NoError
    /\ returned' = AccessResult(name)
    /\ last' = [op |-> "access", name |-> name]
    /\ UNCHANGED <<facadeVars, lazyVars, renderVars, parseVars, shareVars>>

-----------------------------------------------------------------------------
(* Logger.with *)

WithOptions ==
    [logger : {Undefined} \cup {Str(n) : n \in SelectableNames},
     template : {Undefined} \cup {Str(t) : t \in TemplateArgs},
     context : {Undefined} \cup {Map(m) : m \in MapArgs}]

\* lines 81-82: the assignment comes before the registry check
WithLogger(current, options) ==
    IF Truthy(options.logger) THEN options.logger.s ELSE current

\* lines 83-85: if (!this.#loggers[options.logger]) throw
WithThrows(reg, options) ==
    /\ Truthy(options.logger)
    /\ Lookup(reg, options.logger.s) = "undefined"

\* line 87
WithTemplate(persistent, options) ==
    IF Truthy(options.template) THEN options.template ELSE persistent

\* lines 88-90
WithContext(ctx, options) ==
    IF Truthy(options.context) THEN Assign(ctx, options.context.m) ELSE ctx

\* as AfterThrow, had lines 87-90 run before the throw
AfterThrowApplied(before, applied) == applied

\* what a field holds when with() threw on line 84: lines 87-90, which would
\* have applied the template and context options, were not reached
AfterThrow(before, applied) == before

With(options) ==
    /\ currentLogger' = WithLogger(currentLogger, options)
    /\ IF WithThrows(loggers, options)
       THEN /\ thrown' = NotRegistered(options.logger.s)
            /\ returned' = Nothing
            /\ message' = AfterThrow(message, WithTemplate(message, options))
            /\ context' = AfterThrow(context, WithContext(context, options))
            /\ callerContext' = Aliased(callerContext,
                    AfterThrow(context, WithContext(context, options)))
       ELSE /\ thrown' = NoError
            /\ returned' = This
            /\ message' = WithTemplate(message, options)
            /\ context' = WithContext(context, options)
            /\ callerContext' = Aliased(callerContext, WithContext(context, options))
    /\ out' = << >>
    /\ last' = [op |-> "with", options |-> options]
    /\ UNCHANGED <<loggers, lazyVars, renderVars, parseVars, other>>

-----------------------------------------------------------------------------
(* Logger.context and Logger.message *)

Context(m) ==
    /\ context' = Assign(context, m)
    /\ callerContext' = Aliased(callerContext, Assign(context, m))
    /\ out' = << >>
    /\ thrown' = NoError
    /\ returned' = This
    /\ last' = [op |-> "context", m |-> m]
    /\ UNCHANGED <<loggers, currentLogger, message, lazyVars, renderVars, parseVars, other>>

Message(v) ==
    /\ message' = v
    /\ out' = << >>
    /\ thrown' = NoError
    /\ returned' = This
    /\ last' = [op |-> "message", v |-> v]
    /\ UNCHANGED <<loggers, currentLogger, context, lazyVars, renderVars, parseVars, shareVars>>

-----------------------------------------------------------------------------
(* The level methods *)

\* the primary arguments of a level call
PrimaryArgs ==
    {Str(s) : s \in StrArgs} \cup TplArgs \cup {Cb(c) : c \in CbArgs}
        \cup {Map(m) : m \in MapArgs} \cup {Undefined}

\* the first trailing argument of a level call
TrailingArgs == {Undefined} \cup {Map(m) : m \in MapArgs} \cup {Fn(f) : f \in FnArgs}

\* args[0] of a call: a tagged template passes its first interpolated value
Arg0(primary, trailing) ==
    IF primary.kind = "template" THEN Str(primary.values[1]) ELSE trailing

\* the calls a caller makes: per-call properties go with a string message
LevelCalls ==
    {<<p, t>> \in PrimaryArgs \X TrailingArgs : p.kind = "string" \/ t = Undefined}

Error(primary, trailing) ==
    /\ <<primary, trailing>> \in LevelCalls
    /\ Log("error", primary, Arg0(primary, trailing))

Warn(primary, trailing) ==
    /\ <<primary, trailing>> \in LevelCalls
    /\ Log("warn", primary, Arg0(primary, trailing))

Info(primary, trailing) ==
    /\ <<primary, trailing>> \in LevelCalls
    /\ Log("info", primary, Arg0(primary, trailing))

Debug(primary, trailing) ==
    /\ <<primary, trailing>> \in LevelCalls
    /\ Log("debug", primary, Arg0(primary, trailing))

Fatal(primary, trailing) ==
    /\ <<primary, trailing>> \in LevelCalls
    /\ Log("fatal", primary, Arg0(primary, trailing))

-----------------------------------------------------------------------------
(* Logger.#logLazily and Logger.#logTemplate: the record builders.  No      *)
(* method of the class calls them; they are modelled as operations of      *)
(* their own, with the backend's reads of the records they emit.           *)

\* the properties arguments: absent, a mapping, or a zero-argument producer
PropertiesArgs == {Undefined, Map([k \in {"a"} |-> 1]), Fn("propsA1"), Fn("propsNull")}

\* a properties producer of the caller, called
ApplyProducer(f) ==
    CASE f = "propsA1" -> Map([k \in {"a"} |-> 1])
      [] f = "propsNull" -> Null

\* a message callback of the caller, called for the n-th time with prefix
\* (tpl, ...values) => renderMessage(tpl, values)
ApplyCallback(cb, n) ==
    CASE cb = "tpl" -> Arr(renderMessage(<<"Hello ", "">>, <<"5">>))
      [] cb = "fresh" -> Arr([i \in 1..n |-> "x"])
      [] cb = "null" -> Null
      [] cb = "throws" -> Nothing

\* whether a message callback throws instead of returning
CallbackThrows(cb) == cb = "throws"

\* what such a callback throws
CallbackFailure == [kind |-> "Error", text |-> "callback failed"]

\* an accessor property, as opposed to a data property holding a value
Accessor == [kind |-> "getter"]

\* the getter of lines 145-148 run once: << returned value, cachedProps, calls >>
PropertiesGetter(properties, cachedProps, n) ==
    IF Nullish(cachedProps)
    THEN << ApplyProducer(properties.fn), ApplyProducer(properties.fn), n + 1 >>
    ELSE << cachedProps, cachedProps, n >>

\* Object.assign(record, typeof properties === "function" ? {get properties()
\* {...}} : {properties}): Object.assign reads the source's property, which
\* runs the getter, and stores the value read as a data property of record.
\* << record.properties, cachedProps, calls of the producer >>
AssignProperties(properties) ==
    LET given == Default(properties, Map(EmptyMap))
    IN IF given.kind = "function"
       THEN PropertiesGetter(given, Undefined, 0)
       ELSE << given, Undefined, 0 >>

\* the shared tail of both builders: the record, its closure, the emit call
Build(op, level, msgField, callback, properties) ==
    LET logger == Lookup(loggers, currentLogger)
        assigned == AssignProperties(properties)
    IN /\ IF logger = "undefined"
          THEN \* logger.category throws before the record is built
               /\ record' = [kind |-> "none"]
               /\ closure' = [kind |-> "none"]
               /\ calls' = [callback |-> 0, properties |-> 0]
               /\ out' = << >>
               /\ thrown' = TypeError
               /\ returned' = Nothing
          ELSE /\ closure' = [kind |-> "closure", callback |-> callback, msg |-> Undefined,
                              properties |-> properties, cachedProps |-> assigned[2]]
               /\ calls' = [callback |-> 0, properties |-> assigned[3]]
               /\ IF IsBackend(logger)
                  THEN /\ record' = [kind |-> "record", category |-> logger, level |-> level,
                                     message |-> msgField, properties |-> assigned[1]]
                       /\ out' = << [backend |-> logger, method |-> "emit",
                                     level |-> level, record |-> record'] >>
                       /\ thrown' = NoError
                       /\ returned' = Undefined
                  ELSE \* logger.emit is not a function: nothing receives the record
                       /\ record' = [kind |-> "none"]
                       /\ out' = << >>
                       /\ thrown' = TypeError
                       /\ returned' = Nothing
       /\ reads' = [message |-> 0, properties |-> 0]
       /\ got' = Undefined
       /\ last' = [op |-> op, level |-> level, callback |-> callback,
                   properties |-> properties]
       /\ UNCHANGED <<facadeVars, renderVars, parseVars, shareVars>>

LogLazily(level, callback, properties) ==
    /\ callback \in CbArgs
    /\ Build("logLazily", level, Accessor, callback, properties)

LogTemplate(level, messageTemplate, properties) ==
    /\ messageTemplate \in TplArgs
    /\ Build("logTemplate", level,
             Arr(renderMessage(messageTemplate.strings, messageTemplate.values)),
             Undefined, properties)

\* as MessageGetter, had a failure of the callback been kept in msg
MessageGetterCachesFailure(callback, msg, n) ==
    IF Nullish(msg)
    THEN IF CallbackThrows(callback)
         THEN << Nothing, CallbackFailure, n + 1, CallbackFailure >>
         ELSE << ApplyCallback(callback, n + 1), ApplyCallback(callback, n + 1),
                 n + 1, NoError >>
    ELSE << msg, msg, n, NoError >>

\* get message() of lines 133-138 run once:
\* << returned value, msg, calls, what the getter threw >>.  When the callback
\* throws, the assignment to msg on line 135 does not happen and the
\* exception leaves the getter.
MessageGetter(callback, msg, n) ==
    IF Nullish(msg)
    THEN IF CallbackThrows(callback)
         THEN << Nothing, msg, n + 1, CallbackFailure >>
         ELSE << ApplyCallback(callback, n + 1), ApplyCallback(callback, n + 1),
                 n + 1, NoError >>
    ELSE << msg, msg, n, NoError >>

\* the backend reads record.message
ReadMessage ==
    /\ record.kind = "record"
    /\ reads.message < MaxReads
    /\ LET r == IF record.message = Accessor
                THEN MessageGetter(closure.callback, closure.msg, calls.callback)
                ELSE << record.message, closure.msg, calls.callback, NoError >>
       IN /\ got' = r[1]
          /\ closure' = [closure EXCEPT !.msg = r[2]]
          /\ calls' = [calls EXCEPT !.callback = r[3]]
          /\ thrown' = r[4]
    /\ reads' = [reads EXCEPT !.message = @ + 1]
    /\ last' = [op |-> "readMessage"]
    /\ UNCHANGED <<facadeVars, out, returned, record, renderVars, parseVars, shareVars>>

\* the backend reads record.properties
ReadProperties ==
    /\ record.kind = "record"
    /\ reads.properties < MaxReads
    /\ LET r == IF record.properties = Accessor
                THEN PropertiesGetter(closure.properties, closure.cachedProps,
                                      calls.properties)
                ELSE << record.properties, closure.cachedProps, calls.properties >>
       IN /\ got' = r[1]
          /\ closure' = [closure EXCEPT !.cachedProps = r[2]]
          /\ calls' = [calls EXCEPT !.properties = r[3]]
    /\ thrown' = NoError
    /\ reads' = [reads EXCEPT !.properties = @ + 1]
    /\ last' = [op |-> "readProperties"]
    /\ UNCHANGED <<facadeVars, out, returned, record, renderVars, parseVars, shareVars>>

NextLazy ==
    \/ \E level \in Levels, cb \in CbArgs, properties \in PropertiesArgs :
          LogLazily(level, cb, properties)
    \/ \E level \in Levels, tpl \in TplArgs, properties \in PropertiesArgs :
          LogTemplate(level, tpl, properties)
    \/ ReadMessage
    \/ ReadProperties

\* facades with two custom backends, selecting any name or none
InitLazy ==
    /\ \E options \in CtorOptions :
          /\ options.loggers = {"init", "build"}
          /\ options.template = Undefined
          /\ Constructor(options)
    /\ Idle
    /\ NoRender
    /\ NoParse
    /\ Alone

SpecLazy == InitLazy /\ [][NextLazy]_vars

-----------------------------------------------------------------------------
(* renderMessage applied to caller-chosen arrays *)

\* the sequences over S of length lo..hi
SeqsOf(S, lo, hi) == UNION {[1..n -> S] : n \in lo..hi}

\* literal segments and interpolated values, kept distinct
Segments == {"s", "t"}
Values == {"5", "v"}

InitRender ==
    /\ Constructor([logger |-> Undefined, template |-> Undefined,
                    context |-> Undefined, loggers |-> {}])
    /\ Idle
    /\ rmTemplate \in SeqsOf(Segments, 1, MaxLen)
    /\ rmValues \in SeqsOf(Values, 0, MaxLen)
    /\ rmResult = Undefined
    /\ NoParse
    /\ Alone

RenderMessage ==
    /\ rmResult = Undefined
    /\ rmResult' = Arr(renderMessage(rmTemplate, rmValues))
    /\ last' = [op |-> "renderMessage"]
    /\ UNCHANGED <<facadeVars, out, thrown, returned, lazyVars, rmTemplate, rmValues, parseVars, shareVars>>

NextRender == RenderMessage

SpecRender == InitRender /\ [][NextRender]_vars

-----------------------------------------------------------------------------
(* parseMessageTemplate (the Template String Parser).  A string is the     *)
(* sequence of its characters; an entry of the returned array is a literal *)
(* string, Lit(part), or whatever properties[part] holds.                  *)

\* the characters templates are written in
Alphabet == {"{", "}", "a", "x"}

\* a literal string pushed from part
Lit(chars) == [kind |-> "string", chars |-> chars]

\* the value 7
Seven == [kind |-> "number", n |-> 7]

\* the properties arguments: {} and {a: 7}
ParseProperties == {EmptyMap, [name \in {<<"a">>} |-> Seven]}

\* properties[part]: undefined when the mapping has no such key
PropertyOf(properties, part) ==
    IF part \in DOMAIN properties THEN properties[part] ELSE Undefined

\* template.charAt(i): the empty string past the end
charAt(template, i) == IF i < Len(template) THEN template[i + 1] ELSE ""

\* the loop of lines 243-267 from index i on, then the push of line 268
RECURSIVE parseLoop(_, _, _, _, _)
parseLoop(template, properties, i, part, msg) ==
    IF i >= Len(template) THEN Append(msg, Lit(part))
    ELSE LET char == charAt(template, i)
             nextChar == charAt(template, i + 1)
         IN IF char = "{" /\ nextChar = "{"
            THEN parseLoop(template, properties, i + 2, Append(part, char), msg)
            ELSE IF char = "}" /\ nextChar = "}"
            THEN parseLoop(template, properties, i + 2, Append(part, char), msg)
            ELSE IF char = "{"
            THEN parseLoop(template, properties, i + 1, << >>, Append(msg, Lit(part)))
            ELSE IF char = "}"
            THEN parseLoop(template, properties, i + 1, << >>,
                           Append(msg, PropertyOf(properties, part)))
            ELSE parseLoop(template, properties, i + 1, Append(part, char), msg)

\* as parseLoop, without the two escape branches
RECURSIVE parseLoopNoEscape(_, _, _, _, _)
parseLoopNoEscape(template, properties, i, part, msg) ==
    IF i >= Len(template) THEN Append(msg, Lit(part))
    ELSE LET char == charAt(template, i)
         IN IF char = "{"
            THEN parseLoopNoEscape(template, properties, i + 1, << >>,
                                   Append(msg, Lit(part)))
            ELSE IF char = "}"
            THEN parseLoopNoEscape(template, properties, i + 1, << >>,
                                   Append(msg, PropertyOf(properties, part)))
            ELSE parseLoopNoEscape(template, properties, i + 1, Append(part, char), msg)

parseMessageTemplateNoEscape(template, properties) ==
    parseLoopNoEscape(template, properties, 0, << >>, << >>)

parseMessageTemplate(template, properties) ==
    parseLoop(template, properties, 0, << >>, << >>)

InitParse ==
    /\ Constructor([logger |-> Undefined, template |-> Undefined,
                    context |-> Undefined, loggers |-> {}])
    /\ Idle
    /\ NoRender
    /\ pmTemplate \in SeqsOf(Alphabet, 0, MaxTemplateLen)
    /\ pmProperties \in ParseProperties
    /\ pmResult = Undefined
    /\ Alone

ParseMessageTemplate ==
    /\ pmResult = Undefined
    /\ pmResult' = Arr(parseMessageTemplate(pmTemplate, pmProperties))
    /\ last' = [op |-> "parseMessageTemplate"]
    /\ UNCHANGED <<facadeVars, out, thrown, returned, lazyVars, renderVars, pmTemplate, pmProperties, shareVars>>

NextParse == ParseMessageTemplate

SpecParse == InitParse /\ [][NextParse]_vars

-----------------------------------------------------------------------------
(* Two facades constructed from one options object.  Both constructors run  *)
(* this.#context = context on the same mapping, so the second facade's      *)
(* #context is the object callerContext describes.                          *)

\* the mapping the caller passes to both constructors
SharedContext == [k \in {"a"} |-> 1]

InitShared ==
    /\ \E options \in CtorOptions :
          /\ options.logger = Undefined
          /\ options.context = Map(SharedContext)
          /\ Constructor(options)
    /\ Idle
    /\ NoRender
    /\ NoParse
    /\ other = [kind |-> "facade", out |-> << >>]

\* info(s) on the second facade: #log clones its #context and writes it
OtherInfo(s) ==
    /\ other.kind = "facade"
    /\ other' = [other EXCEPT !.out =
                    << [backend |-> loggers["general"], method |-> "log",
                        level |-> "info", message |-> Str(s),
                        properties |-> structuredClone(callerContext.m)] >>]
    /\ UNCHANGED <<facadeVars, callVars, lazyVars, renderVars, parseVars, callerContext>>

NextShared ==
    \/ \E m \in MapArgs : Context(m)
    \/ \E options \in WithOptions : With(options)
    \/ \E s \in StrArgs : OtherInfo(s)

SpecShared == InitShared /\ [][NextShared]_vars

-----------------------------------------------------------------------------
Next ==
    \/ \E name \in RegistrableNames : Getter(name)
    \/ General
    \/ \E name \in SelectableNames : Access(name)
    \/ \E options \in WithOptions : With(options)
    \/ \E m \in MapArgs : Context(m)
    \/ \E v \in {Undefined} \cup {Str(t) : t \in TemplateArgs} : Message(v)
    \/ \E primary \in PrimaryArgs, trailing \in TrailingArgs : Error(primary, trailing)
    \/ \E primary \in PrimaryArgs, trailing \in TrailingArgs : Warn(primary, trailing)
    \/ \E primary \in PrimaryArgs, trailing \in TrailingArgs : Info(primary, trailing)
    \/ \E primary \in PrimaryArgs, trailing \in TrailingArgs : Debug(primary, trailing)
    \/ \E primary \in PrimaryArgs, trailing \in TrailingArgs : Fatal(primary, trailing)

Spec == Init /\ [][Next]_vars

-----------------------------------------------------------------------------
(* Properties *)

\* whether props is the mapping C overridden by the mapping P
IsMergeOf(props, C, P) ==
    /\ DOMAIN props = DOMAIN C \cup DOMAIN P
    /\ \A k \in DOMAIN props : props[k] = IF k \in DOMAIN P THEN P[k] ELSE C[k]

\* the per-call properties a trailing argument carries, given the snapshot C
PerCall(arg0, C) ==
    CASE arg0.kind = "mapping" -> arg0.m
      [] arg0.kind = "function" ->
            IF ApplyFn(arg0.fn, C).kind = "mapping" THEN ApplyFn(arg0.fn, C).m
            ELSE EmptyMap
      [] OTHER -> EmptyMap

\* the message a backend call carries: log's argument or the record's field
WrittenMessage(w) == IF w.method = "emit" THEN w.record.message ELSE w.message

\* the properties a backend call carries
WrittenProperties(w) == IF w.method = "emit" THEN w.record.properties ELSE w.properties

Registered(name) == name \in DOMAIN loggers

\* C1: with({logger: n}) for a name n that is not in the registry raises the
\* "not registered" error carrying n, and afterwards the selected-logger name
\* is still the valid name it was before the call.
C1_UnregisteredWithFails ==
    [][ (/\ last'.op = "with"
         /\ last'.options.logger.kind = "string"
         /\ ~Registered(last'.options.logger.s)
         /\ Registered(currentLogger))
        => (/\ thrown' = NotRegistered(last'.options.logger.s)
            /\ currentLogger' = currentLogger) ]_vars

\* C2: in every reachable state of a facade the selected-logger name is a key
\* of the registry.
C2_SelectionRegistered == Registered(currentLogger)

\* C3: for a lazy record built from a message callback, once record.message
\* has been read any number k >= 1 of times the callback has been invoked
\* exactly once, whatever it returns, and a read returns the value that
\* invocation produced.  (A callback that throws returns nothing; see C19.)
C3_CallbackOnce ==
    (/\ record.kind = "record"
     /\ record.message = Accessor
     /\ ~CallbackThrows(closure.callback)
     /\ reads.message >= 1)
        => (/\ calls.callback = 1
            /\ last.op = "readMessage" => got = ApplyCallback(closure.callback, 1))

\* C4: a zero-argument properties producer is not invoked while the record
\* is constructed and emitted; it is invoked once, on the first read of
\* record.properties, and later reads return the cached result.
C4_PropertiesLazy ==
    (record.kind = "record" /\ closure.properties.kind = "function")
        => (/\ calls.properties = IF reads.properties = 0 THEN 0 ELSE 1
            /\ last.op = "readProperties" => got = ApplyProducer(closure.properties.fn))

\* C5: a level call with a string message and per-call properties P (a
\* mapping, or a function called with the context snapshot) leaves the
\* persistent context C as it was, and the backend it writes to observes C
\* merged with P, P winning on equal keys; so nothing of P reaches a later
\* call.
C5_MergeLeavesContext ==
    [][ last'.op = "level"
        => (/\ context' = context
            /\ \A i \in 1..Len(out') :
                  IsMergeOf(WrittenProperties(out'[i]), context,
                            PerCall(last'.arg0, context))
            /\ (last'.message.kind = "string" /\ Registered(currentLogger))
                  => Len(out') = 1) ]_vars

\* C5 witness: context {a: 1}, per-call {b: 2}, the backend observed both
C5_Witness ==
    /\ last.op = "level"
    /\ last.arg0 = Map([k \in {"b"} |-> 2])
    /\ context = [k \in {"a"} |-> 1]
    /\ Len(out) = 1
    /\ out[1].properties = [k \in {"a", "b"} |-> IF k = "a" THEN 1 ELSE 2]

\* C6: after a name is selected through its accessor, a level call with a
\* string message makes exactly one write, on that name's backend, at that
\* level, with that message and the merged context, and none on another
\* backend.
C6_SelectedBackendOnly ==
    [][ (/\ last.op \in {"getter", "general"}
         /\ last'.op = "level"
         /\ last'.message.kind = "string")
        => (/\ Len(out') = 1
            /\ out'[1].backend
                  = loggers[IF last.op = "getter" THEN last.name ELSE "general"]
            /\ out'[1].method = "log"
            /\ out'[1].level = last'.level
            /\ out'[1].message = last'.message
            /\ IsMergeOf(out'[1].properties, context,
                         PerCall(last'.arg0, context))) ]_vars

\* C6 witness: init and build registered, build selected, debug("x") written
\* to build's backend
C6_Witness ==
    /\ {"init", "build"} \subseteq DOMAIN loggers
    /\ currentLogger = "build"
    /\ last.op = "level"
    /\ Len(out) = 1
    /\ out[1].backend = "buildLogger"
    /\ out[1].level = "debug"
    /\ out[1].message = Str("x")

\* C7: a level method called as a tagged template makes one write to the
\* selected backend whose message is renderMessage of the segments and
\* values, with the merged context as properties.
C7_TemplateWritten ==
    (last.op = "level" /\ last.message.kind = "template" /\ Registered(currentLogger))
        => (/\ Len(out) = 1
            /\ out[1].backend = loggers[currentLogger]
            /\ WrittenMessage(out[1])
                  = Arr(renderMessage(last.message.strings, last.message.values))
            /\ WrittenProperties(out[1]) = context)

\* C8: a level method whose primary argument is a plain mapping M makes
\* exactly one write to the selected backend, whose properties are the
\* persistent context merged with M.
C8_MappingWritten ==
    (last.op = "level" /\ last.message.kind = "mapping" /\ Registered(currentLogger))
        => (/\ Len(out) = 1
            /\ out[1].backend = loggers[currentLogger]
            /\ IsMergeOf(WrittenProperties(out[1]), context, last.message.m))

\* C9: a level method whose primary argument is a callback hands the
\* selected backend exactly one record through emit, without invoking the
\* callback during the call.
C9_CallbackEmitted ==
    (last.op = "level" /\ last.message.kind = "callback" /\ Registered(currentLogger))
        => (/\ Len(out) = 1
            /\ out[1].backend = loggers[currentLogger]
            /\ out[1].method = "emit"
            /\ calls.callback = 0)

-----------------------------------------------------------------------------
(* Templates as written: a list of literal characters, escapes and         *)
(* placeholders.  A list is well formed when scanning its text left to      *)
(* right gives the list back, which fails only where a placeholder is      *)
(* directly followed by the escape }}: the text {a}}} scans as {, a, }}, }. *)

Tokens ==
    {[t |-> "lit", c |-> c] : c \in {"a", "x"}}
        \cup {[t |-> "open"], [t |-> "close"]}
        \cup {[t |-> "ph", name |-> << c >>] : c \in {"a", "x"}}

\* the text a token is written as
TokenText(tok) ==
    CASE tok.t = "lit" -> << tok.c >>
      [] tok.t = "open" -> << "{", "{" >>
      [] tok.t = "close" -> << "}", "}" >>
      [] tok.t = "ph" -> << "{" >> \o tok.name \o << "}" >>

RECURSIVE Flatten(_)
Flatten(ts) == IF ts = << >> THEN << >> ELSE TokenText(Head(ts)) \o Flatten(Tail(ts))

WellFormed(ts) ==
    \A i \in 1..(Len(ts) - 1) : ts[i].t = "ph" => ts[i + 1].t # "close"

\* the well-formed token lists whose text fits the bound, with their text
WellFormedTexts ==
    LET lists == {ts \in SeqsOf(Tokens, 0, MaxTemplateLen) : WellFormed(ts)}
    IN {<< ts, Flatten(ts) >> : ts \in lists}

\* what the tokens from i on contribute, given the literal run so far
RECURSIVE Contribution(_, _, _, _)
Contribution(ts, properties, i, run) ==
    IF i > Len(ts) THEN << Lit(run) >>
    ELSE CASE ts[i].t = "lit" -> Contribution(ts, properties, i + 1, Append(run, ts[i].c))
           [] ts[i].t = "open" -> Contribution(ts, properties, i + 1, Append(run, "{"))
           [] ts[i].t = "close" -> Contribution(ts, properties, i + 1, Append(run, "}"))
           [] ts[i].t = "ph" ->
                << Lit(run),
                   IF ts[i].name \in DOMAIN properties THEN properties[ts[i].name]
                   ELSE Undefined >>
                    \o Contribution(ts, properties, i + 1, << >>)

C12_ContextMergesInOrder ==
    [][ /\ DOMAIN context \subseteq DOMAIN context'
        /\ last'.op = "context" => IsMergeOf(context', context, last'.m)
        /\ (/\ last'.op = "with"
            /\ last'.options.context.kind = "mapping"
            /\ thrown' = NoError)
              => IsMergeOf(context', context, last'.options.context.m) ]_vars

\* C12 witness: {a: 1} re-merged with {b: 2} and then {a: 2}
C12_Witness ==
    /\ last.op = "context"
    /\ last.m = [k \in {"a"} |-> 2]
    /\ context = [k \in {"a", "b"} |-> 2]

C14_UnregisteredAccessFails ==
    (last.op = "access" /\ ~Registered(last.name))
        => thrown = NotRegistered(last.name)

\* C15: a level call with a string message s hands the backend s as the
\* message, whatever the persistent template is: every write of the call
\* carries s, and a registered selection gets exactly one.
C15_StringMessageWins ==
    (last.op = "level" /\ last.message.kind = "string")
        => (/\ \A i \in 1..Len(out) :
                  out[i].method = "log" /\ out[i].message = last.message
            /\ Registered(currentLogger) => Len(out) = 1)

\* C15 witness: the empty string logged while the template is "t"
C15_Witness ==
    /\ last.op = "level"
    /\ last.message = Str("")
    /\ message = Str("t")
    /\ Len(out) = 1
    /\ out[1].message = Str("")

\* C16: the persistent context belongs to one facade: with two facades
\* constructed from the same context mapping, context() and with({context})
\* on the first change neither the mapping the caller passed in nor the
\* properties the second facade writes afterwards.
C16_ContextOwned ==
    other.kind = "facade"
        => (/\ callerContext = Map(SharedContext)
            /\ \A i \in 1..Len(other.out) : other.out[i].properties = SharedContext)

\* C17: for every input string, unbalanced and nested braces included, the
\* parsed sequence has odd length, literal strings at the even (0-based)
\* indexes and looked-up values at the odd ones.
C17_AlternatingShape ==
    pmResult # Undefined
        => LET r == pmResult.items
           IN /\ Len(r) % 2 = 1
              /\ \A i \in 1..Len(r) :
                    IF i % 2 = 1
                    THEN r[i] \in {Lit(t) : t \in SeqsOf(Alphabet, 0, MaxTemplateLen + 1)}
                    ELSE r[i] \in {Undefined, Seven}

\* C18: every level method returns the facade and leaves the selected-logger
\* name, the persistent template and the registry as they were; a level call
\* with a string message writes to the backend of the selection in force.
C18_LevelReturnsFacade ==
    [][ last'.op = "level"
        => (/\ returned' = This
            /\ currentLogger' = currentLogger
            /\ message' = message
            /\ loggers' = loggers
            /\ last'.message.kind = "string"
                  => (/\ Len(out') = 1
                      /\ out'[1].backend = Lookup(loggers, currentLogger))) ]_vars

\* C19: when the message callback of a lazy record throws on a read, the
\* reader gets that very failure and no value, and the record has cached
\* nothing: its msg is still unset after the failed read.
C19_FailureNotCached ==
    (/\ last.op = "readMessage"
     /\ record.message = Accessor
     /\ CallbackThrows(closure.callback))
        => (/\ thrown = CallbackFailure
            /\ got = Nothing
            /\ closure.msg = Undefined)

\* C19 witness: a throwing callback read twice, failing both times
C19_Witness ==
    /\ last.op = "readMessage"
    /\ record.kind = "record"
    /\ record.message = Accessor
    /\ CallbackThrows(closure.callback)
    /\ reads.message = 2
    /\ calls.callback = 2
    /\ thrown = CallbackFailure
    /\ closure.msg = Undefined

\* C20: after a with({template: t}) that returns, and after message(t), the
\* persistent template is the string t, the empty string included; message()
\* leaves the selection and the context alone, and so does a with() given
\* neither a logger nor a context option.
C20_TemplateReplaced ==
    [][ /\ (/\ last'.op = "with"
            /\ last'.options.template.kind = "string"
            /\ thrown' = NoError)
              => message' = last'.options.template
        /\ (last'.op = "message" /\ last'.v.kind = "string")
              => message' = last'.v
        /\ last'.op = "message"
              => (currentLogger' = currentLogger /\ context' = context)
        /\ (/\ last'.op = "with"
            /\ last'.options.logger = Undefined
            /\ last'.options.context = Undefined)
              => (currentLogger' = currentLogger /\ context' = context) ]_vars

\* C21: a with() that fails because its logger name is unregistered applies
\* none of its other options: the persistent template and the persistent
\* context (and so the mapping behind it) are after the call what they were
\* before it, also when the call carried template and context options.
C21_FailedWithAppliesNothing ==
    [][ (last'.op = "with" /\ thrown' # NoError)
        => (/\ thrown' = NotRegistered(last'.options.logger.s)
            /\ ~Registered(last'.options.logger.s)
            /\ message' = message
            /\ context' = context
            /\ callerContext' = callerContext) ]_vars

\* C21 witness: with({logger: "missing", template: "t", context: {b: 2}})
\* threw on a facade that has no template and no key b, and still has none
C21_Witness ==
    /\ last.op = "with"
    /\ last.options = [logger |-> Str("missing"), template |-> Str("t"),
                       context |-> Map([k \in {"b"} |-> 2])]
    /\ thrown = NotRegistered("missing")
    /\ message = Undefined
    /\ "b" \notin DOMAIN context

====
